---- MODULE Spec2Model ----
(***************************************************************************)
(* A model of kernelscan.c: the pushback character stream, the lexer       *)
(* (get_token and its helpers), the statement reconstructor                *)
(* (parse_kernel_message) and the per-file scan loop                       *)
(* (parse_kernel_messages).                                                *)
(*                                                                         *)
(* Characters are one-character strings; a C string is a sequence of them. *)
(* The value EOF stands for C's EOF, as a character read and as a return   *)
(* value.                                                                  *)
(***************************************************************************)
EXTENDS Integers, Sequences, FiniteSets, TLC

VARIABLES
    input,         \* the content of the file being read (never changes)
    opt_flags,     \* TRUE iff OPT_ESCAPE_STRIP is set
    p,             \* parser: fp (unread rest of the file), get_chars, skip_white_space
    t,             \* token: token (text), type
    lines,         \* static uint64_t lines
    finds,         \* static uint64_t finds
    files,         \* static uint64_t files
    out,           \* stdout, a sequence of records
    source_emit,   \* parse_kernel_messages: bool source_emit
    pc,            \* where the scan of the file stands
    got_string,    \* parse_kernel_message locals
    emit,
    found,
    str,
    line,
    ret,           \* the value the last get_token call returned
    toks,          \* the tokens returned so far to the token-listing loop
    calls          \* the get_next / unget_next calls made on the stream so far

vars == <<input, opt_flags, p, t, lines, finds, files, out, source_emit,
          pc, got_string, emit, found, str, line, ret, toks, calls>>

---------------------------------------------------------------------------
(* Characters and return values *)

EOF == "EOF"
PARSER_OK == "PARSER_OK"
PARSER_COMMENT_FOUND == "PARSER_COMMENT_FOUND"

NL == "\n"
QUOTE == "\""
SQUOTE == "'"
BACKSLASH == "\\"

Lower == {"a","b","c","d","e","f","g","h","i","j","k","l","m",
          "n","o","p","q","r","s","t","u","v","w","x","y","z"}
Upper == {"A","B","C","D","E","F","G","H","I","J","K","L","M",
          "N","O","P","Q","R","S","T","U","V","W","X","Y","Z"}
Digit == {"0","1","2","3","4","5","6","7","8","9"}

isdigit(ch) == ch \in Digit
isxdigit(ch) == ch \in Digit \cup {"a","b","c","d","e","f","A","B","C","D","E","F"}
isalnum(ch) == ch \in Lower \cup Upper \cup Digit

\* ch >= '0' && ch <= '8'
IsZeroToEight(ch) == ch \in {"0","1","2","3","4","5","6","7","8"}

---------------------------------------------------------------------------
(* The lexer works on one record s holding the parser, the token and the    *)
(* lines counter: fp, get_chars, skip_white_space, token, type, lines.      *)

\* F applied to the value of v, v being evaluated once, before F is
With(v, F(_)) == CHOOSE y \in {F(x) : x \in {v}} : TRUE

Result(r, s) == [ret |-> r, s |-> s]

\* get_next: pop a pushed-back character if there is one, else fgetc(fp)
get_next(s) ==
    IF s.get_chars # <<>>
    THEN [ch |-> Head(s.get_chars), s |-> [s EXCEPT !.get_chars = Tail(@)]]
    ELSE IF s.fp = <<>>
         THEN [ch |-> EOF, s |-> s]
         ELSE [ch |-> Head(s.fp), s |-> [s EXCEPT !.fp = Tail(@)]]

\* a wrong unget_next that queues ch behind the characters pushed back before
unget_next_fifo(s, ch) == [s EXCEPT !.get_chars = @ \o <<ch>>]

\* a wrong unget_next that pushes ch back twice
unget_next_twice(s, ch) == [s EXCEPT !.get_chars = <<ch, ch>> \o @]

\* unget_next: push ch on top of the get_chars stack
unget_next(s, ch) == [s EXCEPT !.get_chars = <<ch>> \o @]

token_clear(s) == [s EXCEPT !.token = <<>>, !.type = "TOKEN_UNKNOWN"]

token_append(s, ch) == [s EXCEPT !.token = Append(@, ch)]

set_type(s, ty) == [s EXCEPT !.type = ty]

RECURSIVE skip_line_comment(_)
\* skip_comments, the do/while of a // comment
skip_line_comment(s) ==
    With(get_next(s), LAMBDA r :
        IF r.ch = EOF THEN Result(EOF, r.s)
        ELSE IF r.ch # NL THEN skip_line_comment(r.s)
        ELSE Result(PARSER_COMMENT_FOUND, r.s))

RECURSIVE skip_block_comment_first_star(_)
\* a wrong skip_block_comment that takes the first * for the end of the comment
skip_block_comment_first_star(s) ==
    With(get_next(s), LAMBDA r :
        IF r.ch = EOF THEN Result(EOF, r.s)
        ELSE IF r.ch = "*" THEN Result(PARSER_COMMENT_FOUND, r.s)
        ELSE skip_block_comment_first_star(r.s))

RECURSIVE skip_block_comment(_)
\* skip_comments, the for (;;) of a /* */ comment
skip_block_comment(s) ==
    With(get_next(s), LAMBDA r :
        IF r.ch = EOF THEN Result(EOF, r.s)
        ELSE IF r.ch = "*"
             THEN With(get_next(r.s), LAMBDA r2 :
                      IF r2.ch = EOF THEN Result(EOF, r2.s)
                      ELSE IF r2.ch = "/" THEN Result(PARSER_COMMENT_FOUND, r2.s)
                      ELSE skip_block_comment(unget_next(r2.s, r2.ch)))
             ELSE skip_block_comment(r.s))

skip_comments(s) ==
    With(get_next(s), LAMBDA r :
        IF r.ch = EOF THEN Result(EOF, r.s)
        ELSE IF r.ch = "/" THEN skip_line_comment(r.s)
        ELSE IF r.ch = "*" THEN skip_block_comment(r.s)
        ELSE Result(PARSER_OK, unget_next(r.s, r.ch)))

RECURSIVE parse_number_digits(_, _, _)
\* parse_number, the for (;;) that gathers the digits
parse_number_digits(s, ishex, isoct) ==
    With(get_next(s), LAMBDA r :
        IF r.ch = EOF THEN Result(PARSER_OK, unget_next(r.s, r.ch))
        ELSE IF ishex
             THEN IF isxdigit(r.ch)
                  THEN parse_number_digits(token_append(r.s, r.ch), ishex, isoct)
                  ELSE Result(PARSER_OK, unget_next(r.s, r.ch))
             ELSE IF isoct
                  THEN IF IsZeroToEight(r.ch)
                       THEN parse_number_digits(token_append(r.s, r.ch), ishex, isoct)
                       ELSE Result(PARSER_OK, unget_next(r.s, r.ch))
                  ELSE IF isdigit(r.ch)
                       THEN parse_number_digits(token_append(r.s, r.ch), ishex, isoct)
                       ELSE Result(PARSER_OK, unget_next(r.s, r.ch)))

\* parse_number, the end-of-input branch right after a leading '0'
parse_number_zero_eof(s, ch) == Result(PARSER_OK, token_append(s, ch))

parse_number(s, ch) ==
    IF ch = "0"
    THEN With(get_next(token_append(s, ch)), LAMBDA r1 :
             IF r1.ch = EOF THEN parse_number_zero_eof(r1.s, ch)
             ELSE IF IsZeroToEight(r1.ch)
                  THEN parse_number_digits(token_append(r1.s, r1.ch), FALSE, TRUE)
             ELSE IF r1.ch \in {"x", "X"}
                  THEN With(get_next(r1.s), LAMBDA r2 :
                           IF r2.ch = EOF
                           THEN Result(PARSER_OK, unget_next(r2.s, r1.ch))
                           ELSE IF isxdigit(r2.ch)
                                THEN parse_number_digits(
                                         token_append(token_append(r2.s, r1.ch), r2.ch),
                                         TRUE, FALSE)
                                ELSE Result(PARSER_OK,
                                            unget_next(unget_next(r2.s, r2.ch), r1.ch)))
             ELSE Result(PARSER_OK, unget_next(r1.s, r1.ch)))
    ELSE parse_number_digits(token_append(s, ch), FALSE, FALSE)

RECURSIVE parse_identifier_loop(_)
\* parse_identifier, the for (;;)
parse_identifier_loop(s) ==
    With(get_next(s), LAMBDA r :
        IF r.ch = EOF THEN Result(PARSER_OK, r.s)
        ELSE IF isalnum(r.ch) \/ r.ch = "_"
             THEN parse_identifier_loop(token_append(r.s, r.ch))
             ELSE Result(PARSER_OK, unget_next(r.s, r.ch)))

parse_identifier(s, ch) ==
    parse_identifier_loop(set_type(token_append(s, ch), "TOKEN_IDENTIFIER"))

\* a wrong strip_escape that consumes the character after the escape
strip_escape_consume(s, literal) ==
    With(get_next(s), LAMBDA r3 :
        IF r3.ch # literal THEN token_append(r3.s, " ") ELSE r3.s)

\* parse_literal in strip mode, after a backslash and one of a b f n r t v: read
\* the next character and push it back; a space unless it is the delimiter
strip_escape(s, literal) ==
    With(get_next(s), LAMBDA r3 :
        IF r3.ch # literal
        THEN token_append(unget_next(r3.s, r3.ch), " ")
        ELSE unget_next(r3.s, r3.ch))

RECURSIVE parse_literal_loop_no_escape(_, _, _)
\* a wrong parse_literal loop for which a backslash is a character like any other
parse_literal_loop_no_escape(s, literal, strip) ==
    With(get_next(s), LAMBDA r :
        IF r.ch = EOF THEN Result(PARSER_OK, r.s)
        ELSE IF r.ch = literal THEN Result(PARSER_OK, token_append(r.s, r.ch))
        ELSE parse_literal_loop_no_escape(token_append(r.s, r.ch), literal, strip))

RECURSIVE parse_literal_loop(_, _, _)
\* parse_literal, the for (;;); strip is opt_flags & OPT_ESCAPE_STRIP
parse_literal_loop(s, literal, strip) ==
    With(get_next(s), LAMBDA r :
        IF r.ch = EOF THEN Result(PARSER_OK, r.s)
        ELSE IF r.ch = BACKSLASH
        THEN IF strip
             THEN With(get_next(r.s), LAMBDA r2 :
                      IF r2.ch = EOF THEN Result(EOF, r2.s)
                      ELSE IF r2.ch = "?"
                           THEN parse_literal_loop(token_append(r2.s, r2.ch),
                                                   literal, strip)
                      ELSE IF r2.ch \in {"a", "b", "f", "n", "r", "t", "v"}
                           THEN With(strip_escape(r2.s, literal), LAMBDA s3 :
                                    parse_literal_loop(s3, literal, strip))
                      ELSE parse_literal_loop(
                               token_append(token_append(r2.s, BACKSLASH), r2.ch),
                               literal, strip))
             ELSE With(get_next(token_append(r.s, r.ch)), LAMBDA r2 :
                      IF r2.ch = EOF THEN Result(EOF, r2.s)
                      ELSE parse_literal_loop(token_append(r2.s, r2.ch),
                                              literal, strip))
        ELSE IF r.ch = literal THEN Result(PARSER_OK, token_append(r.s, r.ch))
        ELSE parse_literal_loop(token_append(r.s, r.ch), literal, strip))

parse_literal(s, literal, type, strip) ==
    parse_literal_loop(token_append(set_type(s, type), literal), literal, strip)

parse_op(s, op) ==
    With(get_next(token_append(s, op)), LAMBDA r :
        IF r.ch = EOF THEN Result(PARSER_OK, r.s)
        ELSE IF r.ch = op THEN Result(PARSER_OK, token_append(r.s, op))
        ELSE Result(PARSER_OK, unget_next(r.s, r.ch)))

parse_minus(s, op) ==
    With(get_next(token_append(s, op)), LAMBDA r :
        IF r.ch = EOF THEN Result(PARSER_OK, r.s)
        ELSE IF r.ch = op THEN Result(PARSER_OK, token_append(r.s, r.ch))
        ELSE IF r.ch = ">"
             THEN Result(PARSER_OK, set_type(token_append(r.s, r.ch), "TOKEN_ARROW"))
        ELSE Result(PARSER_OK, unget_next(r.s, r.ch)))

\* get_token, case '\n': lines++ before falling through to the white space case
count_newline(s, ch) == IF ch = NL THEN [s EXCEPT !.lines = @ + 1] ELSE s

\* the kind get_token gives a single punctuation character
punct_type(ch) ==
    CASE ch = "(" -> "TOKEN_PAREN_OPENED"
      [] ch = ")" -> "TOKEN_PAREN_CLOSED"
      [] ch = "[" -> "TOKEN_SQUARE_OPENED"
      [] ch = "]" -> "TOKEN_SQUARE_CLOSED"
      [] ch = "<" -> "TOKEN_LESS_THAN"
      [] ch = ">" -> "TOKEN_GREATER_THAN"
      [] ch = "," -> "TOKEN_COMMA"
      [] ch = ";" -> "TOKEN_TERMINAL"

\* get_token, the white space case when white space is not skipped
white_space_token(s, ch, strip) ==
    IF strip
    THEN Result(PARSER_OK, set_type(token_append(s, ch), "TOKEN_WHITE_SPACE"))
    ELSE With(get_next(token_append(s, ch)), LAMBDA r2 :
             IF r2.ch = EOF THEN Result(EOF, r2.s)
             ELSE Result(PARSER_OK, token_append(r2.s, r2.ch)))

RECURSIVE get_token(_, _)
get_token(s, strip) ==
    With(get_next(s), LAMBDA r :
        IF r.ch = EOF THEN Result(EOF, r.s)
        ELSE IF r.ch = "/"
        THEN With(skip_comments(r.s), LAMBDA c :
                 IF c.ret = EOF THEN Result(EOF, c.s)
                 ELSE IF c.ret = PARSER_COMMENT_FOUND THEN get_token(c.s, strip)
                 ELSE Result(PARSER_OK, token_append(c.s, r.ch)))
        ELSE IF r.ch = "#"
        THEN Result(PARSER_OK, set_type(token_append(r.s, r.ch), "TOKEN_CPP"))
        ELSE IF r.ch \in {NL, " ", "\t", "\r", BACKSLASH}
        THEN IF r.s.skip_white_space
             THEN get_token(count_newline(r.s, r.ch), strip)
             ELSE white_space_token(count_newline(r.s, r.ch), r.ch, strip)
        ELSE IF r.ch \in {"(", ")", "[", "]", "<", ">", ",", ";"}
        THEN Result(PARSER_OK, set_type(token_append(r.s, r.ch), punct_type(r.ch)))
        ELSE IF r.ch \in {"{", "}", ":", "~", "?", "*", "%", "!", "."}
        THEN Result(PARSER_OK, token_append(r.s, r.ch))
        ELSE IF r.ch \in Digit THEN parse_number(r.s, r.ch)
        ELSE IF r.ch \in Lower \cup Upper THEN parse_identifier(r.s, r.ch)
        ELSE IF r.ch = QUOTE
        THEN parse_literal(r.s, r.ch, "TOKEN_LITERAL_STRING", strip)
        ELSE IF r.ch = SQUOTE
        THEN parse_literal(r.s, r.ch, "TOKEN_LITERAL_CHAR", strip)
        ELSE IF r.ch \in {"+", "=", "|", "&"} THEN parse_op(r.s, r.ch)
        ELSE IF r.ch = "-" THEN parse_minus(r.s, r.ch)
        ELSE get_token(r.s, strip))

---------------------------------------------------------------------------
(* The function-name table: funcs[], djb2a and the width search of main *)

\* static char *funcs[], without its terminating NULL
funcs == <<
    <<"p","r","i","n","t","k">>,
    <<"p","r","i","n","t","f">>,
    <<"e","a","r","l","y","_","p","r","i","n","t","k">>,
    <<"v","p","r","i","n","t","k","_","e","m","i","t">>,
    <<"v","p","r","i","n","t","k">>,
    <<"p","r","i","n","t","k","_","e","m","i","t">>,
    <<"p","r","i","n","t","k","_","o","n","c","e">>,
    <<"p","r","i","n","t","k","_","d","e","f","e","r","r","e","d">>,
    <<"p","r","i","n","t","k","_","d","e","f","e","r","r","e","d","_","o","n","c","e">>,
    <<"p","r","_","e","m","e","r","g">>,
    <<"p","r","_","a","l","e","r","t">>,
    <<"p","r","_","c","r","i","t">>,
    <<"p","r","_","e","r","r">>,
    <<"p","r","_","w","a","r","n","i","n","g">>,
    <<"p","r","_","w","a","r","n">>,
    <<"p","r","_","n","o","t","i","c","e">>,
    <<"p","r","_","i","n","f","o">>,
    <<"p","r","_","c","o","n","t">>,
    <<"p","r","_","d","e","v","e","l">>,
    <<"p","r","_","d","e","b","u","g">>,
    <<"p","r","_","e","m","e","r","g","_","o","n","c","e">>,
    <<"p","r","_","a","l","e","r","t","_","o","n","c","e">>,
    <<"p","r","_","c","r","i","t","_","o","n","c","e">>,
    <<"p","r","_","e","r","r","_","o","n","c","e">>,
    <<"p","r","_","w","a","r","n","i","n","g","_","o","n","c","e">>,
    <<"p","r","_","w","a","r","n","_","o","n","c","e">>,
    <<"p","r","_","n","o","t","i","c","e","_","o","n","c","e">>,
    <<"p","r","_","i","n","f","o","_","o","n","c","e">>,
    <<"p","r","_","c","o","n","t","_","o","n","c","e">>,
    <<"p","r","_","d","e","v","e","l","_","o","n","c","e">>,
    <<"p","r","_","d","e","b","u","g","_","o","n","c","e">>,
    <<"d","y","n","a","m","i","c","_","p","r","_","d","e","b","u","g">>,
    <<"d","e","v","_","v","p","r","i","n","t","k","_","e","m","i","t">>,
    <<"d","e","v","_","p","r","i","n","t","k","_","e","m","i","t">>,
    <<"d","e","v","_","p","r","i","n","t","k">>,
    <<"d","e","v","_","e","m","e","r","g">>,
    <<"d","e","v","_","a","l","e","r","t">>,
    <<"d","e","v","_","c","r","i","t">>,
    <<"d","e","v","_","e","r","r">>,
    <<"d","e","v","_","w","a","r","n">>,
    <<"d","e","v","_","d","b","g">>,
    <<"d","e","v","_","n","o","t","i","c","e">>,
    <<"d","e","v","_","l","e","v","e","l","_","o","n","c","e">>,
    <<"d","e","v","_","e","m","e","r","g","_","o","n","c","e">>,
    <<"d","e","v","_","a","l","e","r","t","_","o","n","c","e">>,
    <<"d","e","v","_","c","r","i","t","_","o","n","c","e">>,
    <<"d","e","v","_","e","r","r","_","o","n","c","e">>,
    <<"d","e","v","_","w","a","r","n","_","o","n","c","e">>,
    <<"d","e","v","_","n","o","t","i","c","e","_","o","n","c","e">>,
    <<"d","e","v","_","i","n","f","o","_","o","n","c","e">>,
    <<"d","e","v","_","d","b","g","_","o","n","c","e">>,
    <<"d","e","v","_","l","e","v","e","l","_","r","a","t","e","l","i","m","i","t","e","d">>,
    <<"d","e","v","_","e","m","e","r","g","_","r","a","t","e","l","i","m","i","t","e","d">>,
    <<"d","e","v","_","a","l","e","r","t","_","r","a","t","e","l","i","m","i","t","e","d">>,
    <<"d","e","v","_","c","r","i","t","_","r","a","t","e","l","i","m","i","t","e","d">>,
    <<"d","e","v","_","e","r","r","_","r","a","t","e","l","i","m","i","t","e","d">>,
    <<"d","e","v","_","w","a","r","n","_","r","a","t","e","l","i","m","i","t","e","d">>,
    <<"d","e","v","_","n","o","t","i","c","e","_","r","a","t","e","l","i","m","i","t","e","d">>,
    <<"d","e","v","_","i","n","f","o","_","r","a","t","e","l","i","m","i","t","e","d">>,
    <<"d","b","g">>,
    <<"A","C","P","I","_","E","R","R","O","R">>,
    <<"A","C","P","I","_","I","N","F","O">>,
    <<"A","C","P","I","_","W","A","R","N","I","N","G">>,
    <<"A","C","P","I","_","E","X","C","E","P","T","I","O","N">>,
    <<"A","C","P","I","_","B","I","O","S","_","W","A","R","N","I","N","G">>,
    <<"A","C","P","I","_","B","I","O","S","_","E","R","R","O","R">>,
    <<"A","C","P","I","_","E","R","R","O","R","_","M","E","T","H","O","D">>,
    <<"A","C","P","I","_","D","E","B","U","G","_","P","R","I","N","T">>,
    <<"A","C","P","I","_","D","E","B","U","G","_","P","R","I","N","T","_","R","A","W">>,
    <<"D","E","B","U","G">>
>>

\* a null pointer where the code holds a char *
NULL == <<"NULL">>

\* the characters of codes 32..126, in order (code 96, which a TLA+ string
\* cannot hold, is written as a name no character equals)
AsciiPrintable == <<
    " ","!","\"","#","$","%","&","'","(",")","*","+",",","-",".","/",
    "0","1","2","3","4","5","6","7","8","9",":",";","<","=",">","?",
    "@","A","B","C","D","E","F","G","H","I","J","K","L","M","N","O",
    "P","Q","R","S","T","U","V","W","X","Y","Z","[","\\","]","^","_",
    "BACKTICK","a","b","c","d","e","f","g","h","i","j","k","l","m","n","o",
    "p","q","r","s","t","u","v","w","x","y","z","{","|","}","~"
>>

\* the code of a character, as (unsigned int) of a char of the string
OrdTable ==
    [c \in {AsciiPrintable[i] : i \in DOMAIN AsciiPrintable} \cup {"\t", NL, "\r"} |->
        IF c = "\t" THEN 9
        ELSE IF c = NL THEN 10
        ELSE IF c = "\r" THEN 13
        ELSE 31 + (CHOOSE i \in DOMAIN AsciiPrintable : AsciiPrintable[i] = c)]

Ord(c) == OrdTable[c]

\* An unsigned int is 32 bits wide; it is held as its two 16-bit halves, hi and
\* lo, of value hi * 2^16 + lo
HALF == 256 * 256

RECURSIVE BitXor(_, _)
\* a ^ b on naturals
BitXor(a, b) ==
    IF a = 0 THEN b
    ELSE IF b = 0 THEN a
    ELSE 2 * BitXor(a \div 2, b \div 2) + (((a % 2) + (b % 2)) % 2)

\* djb2a, one round: hash = ((hash << 5) + hash) ^ c, in 32 bits; c is below
\* 256, so the exclusive or changes the low byte only
djb2a_round(hash, c) ==
    LET lo33 == hash.lo * 33
        hi33 == hash.hi * 33 + (lo33 \div HALF)
        lo == lo33 % HALF
    IN  [hi |-> hi33 % HALF, lo |-> (lo - (lo % 256)) + BitXor(lo % 256, c)]

RECURSIVE djb2a_from(_, _, _)
\* djb2a, the while loop from character i on
djb2a_from(str_, i, hash) ==
    IF i > Len(str_) THEN hash
    ELSE With(djb2a_round(hash, Ord(str_[i])), LAMBDA h :
             djb2a_from(str_, i + 1, h))

djb2a(str_) == djb2a_from(str_, 1, [hi |-> 0, lo |-> 5381])

\* hash % size for a 32-bit hash and a size below 2^15
hash_mod(hash, size) == ((hash.hi % size) * (HALF % size) + hash.lo) % size

HASH_SIZE_FIRST == 458
TABLE_SIZE == 5000

\* djb2a(funcs[i]) for each entry of funcs
funcs_hash == [i \in DOMAIN funcs |-> djb2a(funcs[i])]

RECURSIVE fill_table(_, _, _)
\* main, the inner for loop on funcs[i] for one hash_size: the table it leaves
\* and whether it met a collision
fill_table(size, i, tab) ==
    IF i > Len(funcs) THEN [collision |-> FALSE, tab |-> tab]
    ELSE LET h == hash_mod(funcs_hash[i], size) IN
         IF tab[h] # NULL THEN [collision |-> TRUE, tab |-> tab]
         ELSE fill_table(size, i + 1, [tab EXCEPT ![h] = funcs[i]])

empty_table == [h \in 0..(TABLE_SIZE - 1) |-> NULL]

RECURSIVE find_hash_size(_)
\* main, the outer for loop: the first size from 458 on without a collision,
\* TABLE_SIZE when there is none
find_hash_size(size) ==
    IF size >= TABLE_SIZE THEN [hash_size |-> size, hash_funcs |-> empty_table]
    ELSE With(fill_table(size, 1, empty_table), LAMBDA f :
             IF ~f.collision THEN [hash_size |-> size, hash_funcs |-> f.tab]
             ELSE find_hash_size(size + 1))

hash_table == find_hash_size(HASH_SIZE_FIRST)
hash_size == hash_table.hash_size
hash_funcs == hash_table.hash_funcs

\* a wrong lookup that takes a filled slot for a match
is_kernel_func_any_slot(token) ==
    hash_funcs[hash_mod(djb2a(token), hash_size)] # NULL

\* parse_kernel_messages: hf && !strcmp(t.token, hf)
is_kernel_func(token) ==
    With(hash_funcs[hash_mod(djb2a(token), hash_size)], LAMBDA hf :
        hf # NULL /\ token = hf)

---------------------------------------------------------------------------
(* Strings of the reconstructor *)

\* strdupcat: new when old is NULL, else old followed by new
strdupcat(old, new) == IF old = NULL THEN new ELSE old \o new

\* a wrong literal_strip_quotes that leaves the quotes on
literal_keep_quotes(token) == token

\* literal_strip_quotes: drop the last character, then the first
literal_strip_quotes(token) == SubSeq(token, 2, Len(token) - 1)

\* parse_kernel_message, what is appended to line after the token's own text
after_token(type) == IF type = "TOKEN_COMMA" THEN <<" ">> ELSE <<>>

\* what printf / putchar wrote: a record per output line
SourceLine == [kind |-> "source", text |-> <<>>]
FindingLine(text) == [kind |-> "finding", text |-> text]
BlankLine == [kind |-> "blank", text |-> <<>>]

\* a wrong emit_lines that prints the Source header before every finding
emit_lines_header_always(emit_, source_emit_, line_) ==
    IF emit_ THEN <<SourceLine, FindingLine(line_)>> ELSE <<>>

\* parse_kernel_message at TOKEN_TERMINAL: the lines printed when emit is set
emit_lines(emit_, source_emit_, line_) ==
    IF emit_
    THEN (IF ~source_emit_ THEN <<SourceLine>> ELSE <<>>) \o <<FindingLine(line_)>>
    ELSE <<>>

\* a wrong count that grows at every TOKEN_TERMINAL
emit_count_always(emit_) == 1

\* parse_kernel_message at TOKEN_TERMINAL: finds++ when emit is set
emit_count(emit_) == IF emit_ THEN 1 ELSE 0

\* parse_kernel_messages after the loop: if (source_emit) putchar('\n')
end_lines(source_emit_) == IF source_emit_ THEN <<BlankLine>> ELSE <<>>

---------------------------------------------------------------------------
(* The state the lexer record is taken from and written back to *)

Lx(p_, t_, lines_) ==
    [fp |-> p_.fp, get_chars |-> p_.get_chars,
     skip_white_space |-> p_.skip_white_space,
     token |-> t_.token, type |-> t_.type, lines |-> lines_]

ParserOf(s) ==
    [fp |-> s.fp, get_chars |-> s.get_chars, skip_white_space |-> s.skip_white_space]

TokenOf(s) == [token |-> s.token, type |-> s.type]

\* parser_new
parser_new(fp, skip_white_space) ==
    [fp |-> fp, get_chars |-> <<>>, skip_white_space |-> skip_white_space]

\* token_new: an empty token of unknown type
token_new == [token |-> <<>>, type |-> "TOKEN_UNKNOWN"]

\* token_free
token_free == [token |-> NULL, type |-> "TOKEN_UNKNOWN"]

\* the get_token call every step of the scan starts with, on the token as it is
Call == get_token(Lx(p, t, lines), opt_flags)

\* the same call on a token cleared first
CallCleared == get_token(token_clear(Lx(p, t, lines)), opt_flags)

Adopt(r) ==
    /\ p' = ParserOf(r.s)
    /\ lines' = r.s.lines
    /\ ret' = r.ret

---------------------------------------------------------------------------
(* Inputs *)

RECURSIVE Flatten(_)
Flatten(ss) == IF ss = <<>> THEN <<>> ELSE Head(ss) \o Flatten(Tail(ss))

SeqsUpTo(S, n) == UNION {[1..k -> S] : k \in 0..n}

PRINTK == <<"p","r","i","n","t","k">>

\* the pieces files are made of
Chunks == {
    PRINTK,
    PRINTK \o <<"(">>,
    <<QUOTE, "a", QUOTE>>,
    <<")", ";">>,
    <<";">>,
    <<" ">>,
    <<"x">>,
    <<NL>>,
    <<"/", "/", "c", NL>>,
    <<"/", "*", NL, "*", "/">>,
    <<QUOTE, NL, QUOTE>>,
    PRINTK \o <<"(", QUOTE, "a", QUOTE, ")", ";">>
}

MaxChunks == 3

\* printk("foo" "bar");
FooBarCall == <<"p", "r", "i", "n", "t", "k", "(", QUOTE, "f", "o", "o", QUOTE, " ", QUOTE, "b", "a", "r", QUOTE, ")", ";">>

\* printk("a"); printk("b");
TwoCalls == <<"p", "r", "i", "n", "t", "k", "(", QUOTE, "a", QUOTE, ")", ";", " ", "p", "r", "i", "n", "t", "k", "(", QUOTE, "b", QUOTE, ")", ";">>

\* printk foo; printk("x");
FalseMatchThenCall == <<"p", "r", "i", "n", "t", "k", " ", "f", "o", "o", ";", " ", "p", "r", "i", "n", "t", "k", "(", QUOTE, "x", QUOTE, ")", ";">>

\* printk("a"), x = "b";
LiteralBeforeSemicolon == <<"p", "r", "i", "n", "t", "k", "(", QUOTE, "a", QUOTE, ")", ",", " ", "x", " ", "=", " ", QUOTE, "b", QUOTE, ";">>

\* __printk("x");
UnderscorePrintk == <<"_", "_", "p", "r", "i", "n", "t", "k", "(", QUOTE, "x", QUOTE, ")", ";">>

\* _dev_err("x");
UnderscoreDevErr == <<"_", "d", "e", "v", "_", "e", "r", "r", "(", QUOTE, "x", QUOTE, ")", ";">>

Examples ==
    {FooBarCall, TwoCalls, FalseMatchThenCall, LiteralBeforeSemicolon,
     UnderscorePrintk, UnderscoreDevErr}

Inputs == {Flatten(ss) : ss \in SeqsUpTo(Chunks, MaxChunks)} \cup Examples

---------------------------------------------------------------------------
(* parse_file / parse_kernel_messages / parse_kernel_message on one file *)

Init ==
    /\ input \in Inputs
    /\ opt_flags \in BOOLEAN
    /\ p = parser_new(input, TRUE)
    /\ t = token_new
    /\ lines = 0
    /\ finds = 0
    /\ files = 0
    /\ out = <<>>
    /\ source_emit = FALSE
    /\ pc = "scan"
    /\ got_string = FALSE
    /\ emit = FALSE
    /\ found = FALSE
    /\ str = NULL
    /\ line = NULL
    /\ ret = PARSER_OK
    /\ toks = <<>>
    /\ calls = <<>>

fixed == <<input, opt_flags, toks, calls>>
locals == <<got_string, emit, found, str, line>>

\* parse_kernel_messages: get_token returns EOF, the loop ends; token_free, the
\* blank line, and parse_file's files++
ScanEnd ==
    /\ pc = "scan"
    /\ \E r \in {Call} :
           /\ r.ret = EOF
           /\ Adopt(r)
           /\ t' = token_free
           /\ out' = out \o end_lines(source_emit)
           /\ files' = files + 1
           /\ pc' = "done"
           /\ UNCHANGED <<fixed, locals, finds, source_emit>>

\* parse_kernel_messages: a token that is no listed name; token_clear
ScanOther ==
    /\ pc = "scan"
    /\ \E r \in {Call} :
           /\ r.ret # EOF
           /\ ~is_kernel_func(r.s.token)
           /\ Adopt(r)
           /\ t' = TokenOf(token_clear(r.s))
           /\ UNCHANGED <<fixed, locals, finds, files, out, source_emit, pc>>

\* parse_kernel_messages: a listed name; parse_kernel_message is entered and
\* runs to its first get_token call
ScanMatch ==
    /\ pc = "scan"
    /\ \E r \in {Call} :
           /\ r.ret # EOF
           /\ is_kernel_func(r.s.token)
           /\ Adopt(r)
           /\ got_string' = FALSE
           /\ emit' = FALSE
           /\ found' = FALSE
           /\ str' = NULL
           /\ line' = strdupcat(NULL, r.s.token)
           /\ t' = TokenOf(token_clear(r.s))
           /\ pc' = "expect_paren"
           /\ UNCHANGED <<fixed, finds, files, out, source_emit>>

\* parse_kernel_message: the token after the name
ExpectParen ==
    /\ pc = "expect_paren"
    /\ \E r \in {Call} :
           /\ Adopt(r)
           /\ IF r.ret = EOF
              THEN /\ t' = TokenOf(r.s)
                   /\ line' = NULL
                   /\ pc' = "scan"
              ELSE IF r.s.type # "TOKEN_PAREN_OPENED"
              THEN /\ t' = TokenOf(r.s)
                   /\ line' = NULL
                   /\ pc' = "resync"
              ELSE /\ line' = strdupcat(line, r.s.token)
                   /\ t' = TokenOf(token_clear(r.s))
                   /\ pc' = "args"
           /\ UNCHANGED <<fixed, got_string, emit, found, str, finds, files, out, source_emit>>

\* parse_kernel_message: the loop that reads up to a TOKEN_TERMINAL after a
\* name that no parenthesis followed
Resync ==
    /\ pc = "resync"
    /\ \E r \in {Call} :
           /\ Adopt(r)
           /\ t' = TokenOf(r.s)
           /\ pc' = IF r.ret = EOF \/ r.s.type = "TOKEN_TERMINAL"
                    THEN "scan" ELSE "resync"
           /\ UNCHANGED <<fixed, locals, finds, files, out, source_emit>>

\* a wrong end of input in the argument loop that prints what was accumulated
ArgsEOF_emits ==
    /\ pc = "args"
    /\ \E r \in {Call} :
           /\ r.ret = EOF
           /\ Adopt(r)
           /\ t' = TokenOf(r.s)
           /\ out' = out \o emit_lines(emit, source_emit, line)
           /\ source_emit' = (source_emit \/ emit)
           /\ finds' = finds + emit_count(emit)
           /\ line' = NULL
           /\ str' = NULL
           /\ pc' = "scan"
           /\ UNCHANGED <<fixed, got_string, emit, found, files>>

\* parse_kernel_message, the argument loop: end of input
ArgsEOF ==
    /\ pc = "args"
    /\ \E r \in {Call} :
           /\ r.ret = EOF
           /\ Adopt(r)
           /\ t' = TokenOf(r.s)
           /\ line' = NULL
           /\ str' = NULL
           /\ pc' = "scan"
           /\ UNCHANGED <<fixed, got_string, emit, found, finds, files, out, source_emit>>

\* parse_kernel_message, the argument loop: the ; that ends the statement
ArgsTerminal ==
    /\ pc = "args"
    /\ \E r \in {Call} :
           /\ r.ret # EOF
           /\ r.s.type = "TOKEN_TERMINAL"
           /\ Adopt(r)
           /\ t' = TokenOf(r.s)
           /\ out' = out \o emit_lines(emit, source_emit, line)
           /\ source_emit' = (source_emit \/ emit)
           /\ finds' = finds + emit_count(emit)
           /\ line' = NULL
           /\ str' = NULL
           /\ pc' = "scan"
           /\ UNCHANGED <<fixed, got_string, emit, found, files>>

\* parse_kernel_message, the argument loop: a string literal
ArgsString ==
    /\ pc = "args"
    /\ \E r \in {Call} :
           /\ r.ret # EOF
           /\ r.s.type = "TOKEN_LITERAL_STRING"
           /\ Adopt(r)
           /\ LET text == literal_strip_quotes(r.s.token) IN
              /\ str' = strdupcat(str, text)
              /\ line' = strdupcat(
                             IF ~got_string THEN strdupcat(line, <<QUOTE>>) ELSE line,
                             text \o after_token(r.s.type))
           /\ got_string' = TRUE
           /\ emit' = TRUE
           /\ t' = TokenOf(token_clear(r.s))
           /\ UNCHANGED <<fixed, found, finds, files, out, source_emit, pc>>

\* parse_kernel_message, the argument loop: any other token
ArgsOther ==
    /\ pc = "args"
    /\ \E r \in {Call} :
           /\ r.ret # EOF
           /\ r.s.type \notin {"TOKEN_TERMINAL", "TOKEN_LITERAL_STRING"}
           /\ Adopt(r)
           /\ line' = strdupcat(
                          IF got_string THEN strdupcat(line, <<QUOTE>>) ELSE line,
                          r.s.token \o after_token(r.s.type))
           /\ got_string' = FALSE
           /\ found' = (found \/ str # NULL)
           /\ str' = NULL
           /\ t' = TokenOf(token_clear(r.s))
           /\ UNCHANGED <<fixed, emit, finds, files, out, source_emit, pc>>

Next ==
    \/ ScanEnd
    \/ ScanOther
    \/ ScanMatch
    \/ ExpectParen
    \/ Resync
    \/ ArgsEOF
    \/ ArgsTerminal
    \/ ArgsString
    \/ ArgsOther

Spec == Init /\ [][Next]_vars

---------------------------------------------------------------------------
(* The tokenizer alone: get_token called again and again, the token cleared
   before each call, whitespace skipped *)

\* a returned token: its text and its kind
Tok(s) == [text |-> s.token, type |-> s.type]

RECURSIVE token_list(_, _)
\* the tokens get_token returns up to end of input, the token cleared between calls
token_list(s, strip) ==
    With(get_token(token_clear(s), strip), LAMBDA r :
        IF r.ret = EOF THEN <<>>
        ELSE <<Tok(r.s)>> \o token_list(r.s, strip))

\* the tokens of a whole file
tokens_of(file, strip) == token_list(Lx(parser_new(file, TRUE), token_new, 0), strip)

\* the characters around a comment: none of them opens a comment or a literal
LexChars == {"a", "0", "-", ">"}

MaxLexLen == 2

BlockComment == <<"/", "*", "x", "*", "/">>
LineComment == <<"/", "/", "x", NL>>
Comments == {BlockComment, LineComment}

\* a/*x*/b and ab
A_Comment_B == <<"a">> \o BlockComment \o <<"b">>
AB == <<"a", "b">>

CommentInputs ==
    {pre \o c \o post : pre \in SeqsUpTo(LexChars, MaxLexLen),
                        c \in Comments,
                        post \in SeqsUpTo(LexChars, MaxLexLen)}
        \cup {A_Comment_B, AB}

\* the characters numbers are written with
NumChars == {"0", "1", "7", "8", "x", "A"}

MaxNumLen == 3

Zero == <<"0">>
Hex == <<"0", "x", "1", "A">>
Octal == <<"0", "1", "7">>

NumberInputs == SeqsUpTo(NumChars, MaxNumLen) \cup {Zero, Hex, Octal}

\* the characters operators and character literals are written with
OpChars == {"-", ">", "+", "=", SQUOTE, BACKSLASH}

MaxOpLen == 3

OpInputs == SeqsUpTo(OpChars, MaxOpLen)

\* the characters literals are written with: a plain character, the letter of
\* the escape \n, the backslash and the two delimiters
LitChars == {"x", "n", BACKSLASH, QUOTE, SQUOTE}
Delimiters == {QUOTE, SQUOTE}

MaxLitLen == 4

\* "x\ny" and "x\n"
EscapeInside == <<QUOTE, "x", BACKSLASH, "n", "y", QUOTE>>
EscapeAtEnd == <<QUOTE, "x", BACKSLASH, "n", QUOTE>>

\* "a\"b" and "a\\"
EscapedQuote == <<QUOTE, "a", BACKSLASH, QUOTE, "b", QUOTE>>
EscapedBackslash == <<QUOTE, "a", BACKSLASH, BACKSLASH, QUOTE>>

\* "a\ and "a, the file ending there
OpenAfterBackslash == <<QUOTE, "a", BACKSLASH>>
OpenLiteral == <<QUOTE, "a">>

\* a delimiter and what follows it
LiteralInputs ==
    {<<d>> \o body : d \in Delimiters, body \in SeqsUpTo(LitChars, MaxLitLen)}
        \cup {EscapeInside, EscapeAtEnd, EscapedQuote, EscapedBackslash,
              OpenAfterBackslash, OpenLiteral}

LexInputs == CommentInputs \cup NumberInputs \cup OpInputs \cup LiteralInputs

LexInit ==
    /\ input \in LexInputs
    /\ opt_flags \in BOOLEAN
    /\ p = parser_new(input, TRUE)
    /\ t = token_new
    /\ lines = 0
    /\ finds = 0
    /\ files = 0
    /\ out = <<>>
    /\ source_emit = FALSE
    /\ pc = "lex"
    /\ got_string = FALSE
    /\ emit = FALSE
    /\ found = FALSE
    /\ str = NULL
    /\ line = NULL
    /\ ret = PARSER_OK
    /\ toks = <<>>
    /\ calls = <<>>

\* token_clear, then a get_token call that returns a token
LexToken ==
    /\ pc = "lex"
    /\ \E r \in {CallCleared} :
           /\ r.ret # EOF
           /\ Adopt(r)
           /\ t' = TokenOf(r.s)
           /\ toks' = Append(toks, Tok(r.s))
    /\ UNCHANGED <<input, opt_flags, calls, locals, finds, files, out, source_emit, pc>>

\* token_clear, then the get_token call that returns EOF
LexEnd ==
    /\ pc = "lex"
    /\ \E r \in {CallCleared} :
           /\ r.ret = EOF
           /\ Adopt(r)
           /\ t' = TokenOf(r.s)
    /\ pc' = "lexdone"
    /\ UNCHANGED <<input, opt_flags, toks, calls, locals, finds, files, out, source_emit>>

LexNext == LexToken \/ LexEnd

LexSpec == LexInit /\ [][LexNext]_vars

\* the scan of a file or the tokenizer alone, under the scheduling of a
\* sequential program: a step that can be taken is taken
FairInit == Init \/ LexInit

FairNext == Next \/ LexNext

FairSpec == FairInit /\ [][FairNext]_vars /\ WF_vars(FairNext)

---------------------------------------------------------------------------
(* The character stream alone: get_next and unget_next called in any order *)

\* the characters of the file, and the characters callers push back
StreamChars == {"a", "b"}
Pushable == StreamChars \cup {EOF}

MaxFileLen == 2
MaxCalls == 6

StreamInit ==
    /\ input \in SeqsUpTo(StreamChars, MaxFileLen)
    /\ opt_flags = FALSE
    /\ p = parser_new(input, TRUE)
    /\ t = token_new
    /\ lines = 0
    /\ finds = 0
    /\ files = 0
    /\ out = <<>>
    /\ source_emit = FALSE
    /\ pc = "stream"
    /\ got_string = FALSE
    /\ emit = FALSE
    /\ found = FALSE
    /\ str = NULL
    /\ line = NULL
    /\ ret = PARSER_OK
    /\ toks = <<>>
    /\ calls = <<>>

\* a get_next call; the call and what it returned are logged
StreamGet ==
    /\ pc = "stream"
    /\ Len(calls) < MaxCalls
    /\ \E r \in {get_next(Lx(p, t, lines))} :
           /\ p' = ParserOf(r.s)
           /\ calls' = Append(calls, [op |-> "get_next", ch |-> r.ch])
    /\ UNCHANGED <<input, opt_flags, t, lines, ret, toks, locals, finds, files, out, source_emit, pc>>

\* an unget_next(ch) call; the call is logged
StreamUnget(ch) ==
    /\ pc = "stream"
    /\ Len(calls) < MaxCalls
    /\ p' = ParserOf(unget_next(Lx(p, t, lines), ch))
    /\ calls' = Append(calls, [op |-> "unget_next", ch |-> ch])
    /\ UNCHANGED <<input, opt_flags, t, lines, ret, toks, locals, finds, files, out, source_emit, pc>>

StreamNext ==
    \/ StreamGet
    \/ \E ch \in Pushable : StreamUnget(ch)

StreamSpec == StreamInit /\ [][StreamNext]_vars

---------------------------------------------------------------------------
(* The lookup alone: the test parse_kernel_messages makes on a token text *)

\* the names of funcs
FuncNames == {funcs[i] : i \in DOMAIN funcs}

\* the characters other token texts are written with
IdChars == {"p", "r", "d", "e", "k", "_"}

MaxIdLen == 2

\* token texts to look up: the names, the names with a character dropped or
\* added, and short texts
Candidates ==
    FuncNames
        \cup {Tail(n) : n \in FuncNames}
        \cup {SubSeq(n, 1, Len(n) - 1) : n \in FuncNames}
        \cup {n \o <<c>> : n \in FuncNames, c \in {"k", "_"}}
        \cup (SeqsUpTo(IdChars, MaxIdLen) \ {<<>>})

HashInit ==
    /\ input = <<>>
    /\ opt_flags = FALSE
    /\ p = parser_new(input, TRUE)
    /\ t \in {[token |-> c, type |-> "TOKEN_IDENTIFIER"] : c \in Candidates}
    /\ lines = 0
    /\ finds = 0
    /\ files = 0
    /\ out = <<>>
    /\ source_emit = FALSE
    /\ pc = "hash"
    /\ got_string = FALSE
    /\ emit = FALSE
    /\ found = FALSE
    /\ str = NULL
    /\ line = NULL
    /\ ret = PARSER_OK
    /\ toks = <<>>
    /\ calls = <<>>

\* the test of parse_kernel_messages on the token text; found holds its outcome
HashLookup ==
    /\ pc = "hash"
    /\ found' = is_kernel_func(t.token)
    /\ pc' = "hashdone"
    /\ UNCHANGED <<fixed, p, t, lines, ret, got_string, emit, str, line, finds, files,
                   out, source_emit>>

HashNext == HashLookup

HashSpec == HashInit /\ [][HashNext]_vars

---------------------------------------------------------------------------
(* Helpers of the properties *)

\* the finding lines among what was printed, in order
RECURSIVE Findings(_)
Findings(o) ==
    IF o = <<>> THEN <<>>
    ELSE (IF Head(o).kind = "finding" THEN <<Head(o).text>> ELSE <<>>)
         \o Findings(Tail(o))

\* how many times character c occurs in string s_
Count(c, s_) == Cardinality({i \in DOMAIN s_ : s_[i] = c})

\* the input characters not read yet: the rest of the file and the characters
\* pushed back (a pushed-back EOF is no input character)
Unread(q) == Len(q.fp) + Cardinality({i \in DOMAIN q.get_chars : q.get_chars[i] # EOF})

---------------------------------------------------------------------------
(* C1 *)

\* printk("foobar");
FooBarLineWithSemicolon == <<"p", "r", "i", "n", "t", "k", "(", QUOTE, "f", "o", "o", "b", "a", "r", QUOTE, ")", ";">>

\* printk("foobar")
FooBarLine == <<"p", "r", "i", "n", "t", "k", "(", QUOTE, "f", "o", "o", "b", "a", "r", QUOTE, ")">>

\* C1 (as stated): scanning printk("foo" "bar"); emits exactly one finding, and
\* its line is printk("foobar"); with the terminating semicolon.
C1_LineIncludesSemicolon ==
    (pc = "done" /\ input = FooBarCall)
        => (finds = 1 /\ Findings(out) = <<FooBarLineWithSemicolon>>)

\* C1 (amended): scanning printk("foo" "bar"); emits exactly one finding, and
\* its line is printk("foobar"): the call text from the function name through
\* the closing parenthesis, the adjacent literals folded into one quoted run,
\* without the terminating semicolon.
C1_LineWithoutSemicolon ==
    (pc = "done" /\ input = FooBarCall)
        => (finds = 1 /\ Findings(out) = <<FooBarLine>>)

C1_Witness == pc = "done" /\ input = FooBarCall /\ Len(Findings(out)) = 1

---------------------------------------------------------------------------
(* C2 *)

\* C2: in every emitted line each run of string literals is opened by one quote
\* and closed by one quote, whatever token follows the run: with literals that
\* hold no quote themselves, the quotes of every emitted line pair up.
C2_RunsAreClosed ==
    \A i \in DOMAIN out :
        out[i].kind = "finding" => Count(QUOTE, out[i].text) % 2 = 0

---------------------------------------------------------------------------
(* C3 *)

\* the file with the characters i..j replaced by the characters of by
Replaced(file, i, j, by) == SubSeq(file, 1, i - 1) \o by \o SubSeq(file, j + 1, Len(file))

\* the places i..j of the file where a complete comment stands: nothing before
\* it opens a comment or a literal
CommentSpans(file) ==
    {span \in (DOMAIN file) \X (DOMAIN file) :
        /\ span[1] <= span[2]
        /\ SubSeq(file, span[1], span[2]) \in Comments
        /\ \A m \in 1..(span[1] - 1) : file[m] \in LexChars}

\* C3 (as stated): the tokens read from a file are the tokens of the file with
\* a complete comment deleted; a/*x*/b gives the tokens of ab.
C3_CommentDeleted ==
    pc = "lexdone" =>
        \A span \in CommentSpans(input) :
            toks = tokens_of(Replaced(input, span[1], span[2], <<>>), opt_flags)

\* C3 (amended): a complete comment is read as a separator: the tokens read
\* from a file are the tokens of the file with the comment replaced by one
\* space, so that a/*x*/b gives the two tokens a and b.
C3_CommentIsSeparator ==
    pc = "lexdone" =>
        /\ \A span \in CommentSpans(input) :
               toks = tokens_of(Replaced(input, span[1], span[2], <<" ">>), opt_flags)
        /\ input = A_Comment_B =>
               toks = <<[text |-> <<"a">>, type |-> "TOKEN_IDENTIFIER"],
                        [text |-> <<"b">>, type |-> "TOKEN_IDENTIFIER"]>>

C3_Witness == pc = "lexdone" /\ input = A_Comment_B /\ Len(toks) = 2

---------------------------------------------------------------------------
(* C4 *)

\* C4: after the scan of printk("a"); printk("b"); (two recognized call
\* statements, each with a string literal, one directly after the other) two
\* lines were emitted and finds is 2.
C4_AdjacentCallsCounted ==
    (pc = "done" /\ input = TwoCalls)
        => (finds = 2 /\ Len(Findings(out)) = 2)

---------------------------------------------------------------------------
(* C5 *)

\* C5: after the scan of printk foo; printk("x"); the false match emitted
\* nothing and the call that follows it was detected and emitted: one finding.
C5_CallAfterFalseMatchFound ==
    (pc = "done" /\ input = FalseMatchThenCall)
        => (finds = 1 /\ Len(Findings(out)) = 1)

---------------------------------------------------------------------------
(* C6 *)

\* C6: once a file has been scanned to its end, lines has grown by the number
\* of newline characters of the file, wherever they stand.
C6_LinesCountsNewlines ==
    pc = "done" => lines = Count(NL, input)

---------------------------------------------------------------------------
(* C7 *)

\* C7: for each of the files 0x1A, 017 and 0 the first get_token call returns a
\* number token whose text is the file, and the next call returns EOF.
C7_NumberTextIsInput ==
    (pc = "lexdone" /\ input \in {Hex, Octal, Zero})
        => [i \in DOMAIN toks |-> toks[i].text] = <<input>>

---------------------------------------------------------------------------
(* C8 *)

\* C8: every get_token call that does not return EOF leaves fewer unread input
\* characters than it found, and so get_token called again and again comes to
\* return EOF and the scan of a file, the reconstructor included, ends.
C8_ScanTerminates ==
    /\ [][ret' # EOF => Unread(p') < Unread(p)]_vars
    /\ <>(pc \in {"done", "lexdone"})

C8_Witness == pc = "done" /\ Len(input) > 0 /\ Len(Findings(out)) > 0

---------------------------------------------------------------------------
(* C9 *)

\* C9: what a file's scan has printed is nothing while it has no finding, and
\* else the Source header once, then the findings, then, once the scan of the
\* file has ended, one blank line.
C9_OutputOrder ==
    IF Findings(out) = <<>>
    THEN out = <<>>
    ELSE out = <<SourceLine>>
                 \o [i \in DOMAIN Findings(out) |-> FindingLine(Findings(out)[i])]
                 \o (IF pc = "done" THEN <<BlankLine>> ELSE <<>>)

C9_Witness == pc = "done" /\ Len(Findings(out)) = 2 /\ Len(out) = 4

---------------------------------------------------------------------------
(* C10 *)

\* the characters pushed back and not returned yet after the first k calls of
\* the log, the last one pushed last
RECURSIVE PushedBack(_, _)
PushedBack(log, k) ==
    IF k = 0 THEN <<>>
    ELSE LET before == PushedBack(log, k - 1) IN
         IF log[k].op = "unget_next" THEN Append(before, log[k].ch)
         ELSE IF before = <<>> THEN <<>>
         ELSE SubSeq(before, 1, Len(before) - 1)

\* the number of get_next calls among the first k that found nothing pushed back
RECURSIVE FileReads(_, _)
FileReads(log, k) ==
    IF k = 0 THEN 0
    ELSE FileReads(log, k - 1)
             + (IF log[k].op = "get_next" /\ PushedBack(log, k - 1) = <<>> THEN 1 ELSE 0)

---------------------------------------------------------------------------
(* C11 *)

EscapeLetters == {"a", "b", "f", "n", "r", "t", "v"}

\* a file that is one complete literal in which every backslash is followed by
\* one of a b f n r t v: position i of the file is where the text goes on
RECURSIVE LetterEscapesOnly(_, _)
LetterEscapesOnly(file, i) ==
    IF i > Len(file) THEN FALSE
    ELSE IF file[i] = file[1] THEN i = Len(file)
    ELSE IF file[i] = BACKSLASH
         THEN /\ i + 1 <= Len(file)
              /\ file[i + 1] \in EscapeLetters
              /\ LetterEscapesOnly(file, i + 2)
    ELSE LetterEscapesOnly(file, i + 1)

\* the text of such a literal from position i on with its escapes stripped: a
\* space for an escape unless the delimiter follows it
RECURSIVE StrippedFrom(_, _)
StrippedFrom(file, i) ==
    IF file[i] = file[1] THEN <<file[i]>>
    ELSE IF file[i] = BACKSLASH
         THEN (IF file[i + 2] # file[1] THEN <<" ">> ELSE <<>>)
                  \o StrippedFrom(file, i + 2)
    ELSE <<file[i]>> \o StrippedFrom(file, i + 1)

\* "x y" and "x"
EscapeInsideText == <<QUOTE, "x", " ", "y", QUOTE>>
EscapeAtEndText == <<QUOTE, "x", QUOTE>>

\* C11: with the escape-strip flag set, a literal whose escapes are all of
\* a b f n r t v is returned as one token whose text has a space for each
\* escape not followed by the delimiter and nothing for an escape followed by
\* it, the character after the escape being read as usual: "x\ny" gives "x y"
\* and "x\n" gives "x".
C11_EscapesStripped ==
    (pc = "lexdone" /\ opt_flags) =>
        /\ (input # <<>> /\ input[1] \in Delimiters /\ LetterEscapesOnly(input, 2)) =>
               [i \in DOMAIN toks |-> toks[i].text]
                   = <<<<input[1]>> \o StrippedFrom(input, 2)>>
        /\ input = EscapeInside =>
               [i \in DOMAIN toks |-> toks[i].text] = <<EscapeInsideText>>
        /\ input = EscapeAtEnd =>
               [i \in DOMAIN toks |-> toks[i].text] = <<EscapeAtEndText>>

C11_Witness ==
    /\ pc = "lexdone"
    /\ opt_flags
    /\ input = EscapeInside
    /\ Len(toks) = 1
    /\ toks[1].type = "TOKEN_LITERAL_STRING"

---------------------------------------------------------------------------
(* C12 *)

\* the slot of the table a text is looked up in
Slot(text) == hash_mod(djb2a(text), hash_size)

\* C12: the width search ends below TABLE_SIZE with every name of funcs stored
\* in the slot of its hash, and the lookup succeeds for a token text exactly
\* when the text is one of the names, whatever slot it falls in.
C12_LookupIsExact ==
    /\ hash_size < TABLE_SIZE
    /\ \A i \in DOMAIN funcs : hash_funcs[hash_mod(funcs_hash[i], hash_size)] = funcs[i]
    /\ pc = "hashdone" => (found <=> t.token \in FuncNames)

\* a text that is no name was looked up in a slot that holds a name
C12_Witness ==
    /\ pc = "hashdone"
    /\ t.token \notin FuncNames
    /\ hash_funcs[Slot(t.token)] # NULL
    /\ ~found

---------------------------------------------------------------------------
(* C13 *)

\* a string literal was consumed since the opening parenthesis: the line holds
\* the quote that was put before it (no other token of the files holds one)
LiteralConsumed == Count(QUOTE, line) > 0

\* C13: when the argument loop reads the semicolon, one finding line is printed
\* and finds grows by one if a string literal was consumed since the opening
\* parenthesis, and else nothing is printed and finds is unchanged; finds is
\* the number of finding lines printed so far and never decreases.
C13_EmitsIffLiteral ==
    /\ [][(pc = "args" /\ pc' = "scan" /\ ret' # EOF) =>
             IF LiteralConsumed
             THEN /\ finds' = finds + 1
                  /\ Findings(out') = Append(Findings(out), line)
             ELSE /\ finds' = finds
                  /\ out' = out]_vars
    /\ [](finds = Len(Findings(out)))
    /\ [][finds' >= finds]_vars

\* the semicolon of a statement with a literal was just read
C13_Witness ==
    /\ pc = "scan"
    /\ ret = PARSER_OK
    /\ t.type = "TOKEN_TERMINAL"
    /\ finds = 1
    /\ Len(Findings(out)) = 1

---------------------------------------------------------------------------
(* C14 *)

\* parse_kernel_message is at one of its get_token calls
InStatement == pc \in {"expect_paren", "resync", "args"}

\* C14: when get_token returns EOF inside parse_kernel_message, whether the
\* parenthesis is expected, the statement is skipped or the arguments are
\* accumulated, nothing is printed and finds is unchanged; the next get_token
\* call of parse_kernel_messages returns EOF too, so the scan of the file ends
\* there with the findings printed before kept.
C14_EndOfInputInStatement ==
    /\ [][(InStatement /\ ret' = EOF) =>
             (out' = out /\ finds' = finds /\ pc' = "scan")]_vars
    /\ []((pc = "scan" /\ ret = EOF) => Call.ret = EOF)
    /\ [][(pc = "scan" /\ ret = EOF) =>
             (pc' = "done" /\ finds' = finds /\ Findings(out') = Findings(out))]_vars

\* the input ended inside a statement that follows a finding
C14_Witness ==
    /\ pc = "scan"
    /\ ret = EOF
    /\ finds = 1
    /\ Len(Findings(out)) = 1

---------------------------------------------------------------------------
(* C15 *)

\* C15: at every get_token call of parse_kernel_messages and of
\* parse_kernel_message that returns a token, the token returned is the one the
\* call returns on a cleared token: its text and kind are those of the one
\* token read.
C15_TokenIsFresh ==
    (pc \in {"scan", "expect_paren", "resync", "args"} /\ Call.ret # EOF)
        => Tok(Call.s) = Tok(CallCleared.s)

---------------------------------------------------------------------------
(* C16 *)

\* C16: in both escape policies a literal the file ends in, right after a
\* backslash or before the closing delimiter, is returned as a token: get_token
\* returns the partial literal, and EOF at the next call only.
C16_OpenLiteralIsReturned ==
    (pc = "lexdone" /\ input \in {OpenAfterBackslash, OpenLiteral})
        => (Len(toks) = 1 /\ toks[1].type = "TOKEN_LITERAL_STRING")

---------------------------------------------------------------------------
(* C17 *)

\* the place of the first delimiter from position i on that no backslash
\* escapes, a backslash escaping the character after it; 0 when there is none
RECURSIVE UnescapedEnd(_, _)
UnescapedEnd(file, i) ==
    IF i > Len(file) THEN 0
    ELSE IF file[i] = BACKSLASH THEN UnescapedEnd(file, i + 2)
    ELSE IF file[i] = file[1] THEN i
    ELSE UnescapedEnd(file, i + 1)

\* the kind of the literal a delimiter opens
LiteralType(d) == IF d = QUOTE THEN "TOKEN_LITERAL_STRING" ELSE "TOKEN_LITERAL_CHAR"

\* C17: with the escape-strip flag clear, the first token of a file that
\* starts with a complete literal is the file's text from the opening delimiter
\* through the first delimiter no backslash escapes, backslashes and escaped
\* characters unchanged: "a\"b" is one token, and so is "a\\".
C17_PreservedVerbatim ==
    (pc = "lexdone" /\ ~opt_flags) =>
        /\ (input # <<>> /\ input[1] \in Delimiters /\ UnescapedEnd(input, 2) > 0) =>
               /\ toks # <<>>
               /\ toks[1] = [text |-> SubSeq(input, 1, UnescapedEnd(input, 2)),
                             type |-> LiteralType(input[1])]
        /\ input \in {EscapedQuote, EscapedBackslash} =>
               [i \in DOMAIN toks |-> toks[i].text] = <<input>>

C17_Witness ==
    /\ pc = "lexdone"
    /\ ~opt_flags
    /\ input = EscapedQuote
    /\ Len(toks) = 1

---------------------------------------------------------------------------
(* C18 *)

\* C18: every finding line holds as many opening as closing parentheses: the
\* statement ends at the semicolon that follows the balanced call expression
\* (the literals of the files hold no parenthesis).
C18_ParenthesesBalanced ==
    \A i \in DOMAIN out :
        out[i].kind = "finding" => Count("(", out[i].text) = Count(")", out[i].text)

---------------------------------------------------------------------------
(* C19 *)

\* C19: the token get_token returns for a file that starts with a digit, a
\* decimal, octal or hexadecimal number, has the kind TOKEN_NUMBER.
C19_NumberKind ==
    (pc = "lexdone" /\ input # <<>> /\ input[1] \in Digit /\ toks # <<>>)
        => toks[1].type = "TOKEN_NUMBER"

---------------------------------------------------------------------------
(* C20 *)

\* C20: an identifier that only ends with a listed name, after leading
\* underscores, is no occurrence of the name: the scan of __printk("x"); and
\* of _dev_err("x"); finds and prints nothing.
C20_WholeIdentifierOnly ==
    (pc = "done" /\ input \in {UnderscorePrintk, UnderscoreDevErr})
        => (finds = 0 /\ out = <<>>)

====
